---- MODULE Spec2Model ----
(***************************************************************************)
(* split_ical.py: the iCalendar block parser (parse_ical) and the two      *)
(* chunk builders (_split_per_event, _split_by_size).                      *)
(*                                                                         *)
(* A Python str is a sequence of one-character strings; a list is a        *)
(* sequence; None is the empty tuple and a present value x is <<x>>.       *)
(***************************************************************************)
EXTENDS Integers, Sequences, FiniteSets, TLC

(***************************************************************************)
(* Characters and strings                                                  *)
(***************************************************************************)

\* A character that UTF-8 encodes in two bytes (U+00E9).
EAcute == "U+00E9"

\* len(ch.encode("utf-8"))
Utf8Width(ch) == IF ch = EAcute THEN 2 ELSE 1

\* The bytes of s[lo..hi], summed by halves.
RECURSIVE Utf8LenRange(_, _, _)
Utf8LenRange(s, lo, hi) ==
    IF lo > hi THEN 0
    ELSE IF lo = hi THEN Utf8Width(s[lo])
    ELSE LET mid == (lo + hi) \div 2
         IN  Utf8LenRange(s, lo, mid) + Utf8LenRange(s, mid + 1, hi)

\* len(s.encode("utf-8"))
Utf8Len(s) == Utf8LenRange(s, 1, Len(s))

\* The characters str.strip() removes.
Whitespace == {" ", "\t", "\n", "\r", "\f"}

\* Line boundaries of str.splitlines() (those that occur in the inputs
\* here, and the form feed); "\r\n" counts as one boundary.
LineBreaks == {"\n", "\r", "\f"}

RECURSIVE LStrip(_)
LStrip(s) ==
    IF s # <<>> /\ Head(s) \in Whitespace THEN LStrip(Tail(s)) ELSE s

RECURSIVE RStrip(_)
RStrip(s) ==
    IF s # <<>> /\ s[Len(s)] \in Whitespace
    THEN RStrip(SubSeq(s, 1, Len(s) - 1))
    ELSE s

\* str.strip()
Strip(s) == RStrip(LStrip(s))

\* str.startswith(p)
StartsWith(s, p) == Len(s) >= Len(p) /\ SubSeq(s, 1, Len(p)) = p

\* str.endswith(p)
EndsWith(s, p) ==
    Len(s) >= Len(p) /\ SubSeq(s, Len(s) - Len(p) + 1, Len(s)) = p

\* The least element of a non-empty set of positions.
Least(S) == CHOOSE k \in S : \A j \in S : k <= j

\* Position of the first occurrence of ch in s at or after k, 0 when there
\* is none.
FindFrom(s, ch, k) ==
    LET hits == {j \in k..Len(s) : s[j] = ch}
    IN  IF hits = {} THEN 0 ELSE Least(hits)

\* s.split(":", 1): one part without a colon, else the parts around the first.
SplitColonOnce(s) ==
    LET p == FindFrom(s, ":", 1)
    IN  IF p = 0 THEN <<s>>
        ELSE <<SubSeq(s, 1, p - 1), SubSeq(s, p + 1, Len(s))>>

\* s.partition(":")[2]
PartitionColonValue(s) ==
    LET p == FindFrom(s, ":", 1)
    IN  IF p = 0 THEN <<>> ELSE SubSeq(s, p + 1, Len(s))

\* The position of the first line boundary at or after k, Len(s) + 1 when
\* there is none.
LineEnd(s, k) ==
    LET brk == {j \in k..Len(s) : s[j] \in LineBreaks}
    IN  IF brk = {} THEN Len(s) + 1 ELSE Least(brk)

\* The positions where the lines of s start: the first character, and the
\* character after each line boundary, "\r\n" being one boundary.
LineStarts(s) ==
    LET n == Len(s)
        ends == {k \in 1..n : /\ s[k] \in LineBreaks
                              /\ ~(s[k] = "\r" /\ k < n /\ s[k + 1] = "\n")}
    IN  {k \in {1} \cup {e + 1 : e \in ends} : k <= n}

\* str.splitlines()
Splitlines(s) ==
    LET starts == LineStarts(s)
        Nth(j) == CHOOSE k \in starts : Cardinality({i \in starts : i < k}) = j - 1
    IN  [j \in 1..Cardinality(starts) |->
            SubSeq(s, Nth(j), LineEnd(s, Nth(j)) - 1)]

\* Path.read_text: universal newlines, "\r\n" and "\r" are read as "\n".
ReadText(s) ==
    LET Kept(k) == ~(s[k] = "\r" /\ k < Len(s) /\ s[k + 1] = "\n")
        idx == SelectSeq([k \in 1..Len(s) |-> k], Kept)
    IN  [j \in 1..Len(idx) |-> IF s[idx[j]] = "\r" THEN "\n" ELSE s[idx[j]]]

\* sep.join(parts[lo..hi]), joined by halves.
RECURSIVE JoinRange(_, _, _, _)
JoinRange(parts, sep, lo, hi) ==
    IF lo > hi THEN <<>>
    ELSE IF lo = hi THEN parts[lo]
    ELSE LET mid == (lo + hi) \div 2
         IN  JoinRange(parts, sep, lo, mid) \o sep
                 \o JoinRange(parts, sep, mid + 1, hi)

\* sep.join(parts)
Join(parts, sep) == JoinRange(parts, sep, 1, Len(parts))

\* list.extend over a list of lists
RECURSIVE Flatten(_)
Flatten(ss) == IF ss = <<>> THEN <<>> ELSE Head(ss) \o Flatten(Tail(ss))

(***************************************************************************)
(* Literals of the program                                                 *)
(***************************************************************************)

kBEGIN == <<"B", "E", "G", "I", "N", ":">>
kEND == <<"E", "N", "D", ":">>
kVCALENDAR == <<"V", "C", "A", "L", "E", "N", "D", "A", "R">>
kVTIMEZONE == <<"V", "T", "I", "M", "E", "Z", "O", "N", "E">>
kVEVENT == <<"V", "E", "V", "E", "N", "T">>
kSUMMARY == <<"S", "U", "M", "M", "A", "R", "Y">>
kUID == <<"U", "I", "D">>
kDTSTART == <<"D", "T", "S", "T", "A", "R", "T">>
NL == <<"\n">>

BeginVCalendar == kBEGIN \o kVCALENDAR
EndVCalendar == kEND \o kVCALENDAR

\* Python's None, and a present value.
None == <<>>
Some(x) == <<x>>

(***************************************************************************)
(* parse_ical                                                              *)
(***************************************************************************)

\* A slip: the scan does not stop at the first hit, the last one wins.
ExtractFromLinesLast(ls, prop_name) ==
    LET hits == {k \in 1..Len(ls) : \/ StartsWith(ls[k], prop_name \o <<":">>)
                                    \/ StartsWith(ls[k], prop_name \o <<";">>)}
    IN  IF hits = {} THEN <<>>
        ELSE Strip(PartitionColonValue(ls[CHOOSE k \in hits : \A j \in hits : j <= k]))

\* The first line of block that starts with prop_name ":" or prop_name ";"
\* gives the stripped text after its first colon; "" when there is none.
ExtractFromLines(ls, prop_name) ==
    LET hits == {k \in 1..Len(ls) : \/ StartsWith(ls[k], prop_name \o <<":">>)
                                    \/ StartsWith(ls[k], prop_name \o <<";">>)}
    IN  IF hits = {} THEN <<>>
        ELSE Strip(PartitionColonValue(ls[Least(hits)]))

\* _extract_property(block, prop_name)
ExtractProperty(block, prop_name) ==
    ExtractFromLines(Splitlines(block), prop_name)

\* The event record appended for a completed VEVENT block.
EventRecord(block_text) ==
    [text |-> block_text,
     summary |-> ExtractProperty(block_text, kSUMMARY),
     uid |-> ExtractProperty(block_text, kUID),
     dtstart |-> ExtractProperty(block_text, kDTSTART)]

\* The container's own tag lines, which the loop skips.
IsContainerTag(stripped) ==
    stripped = BeginVCalendar \/ stripped = EndVCalendar

\* A line opens a top-level block only when no block is open.
OpensBlock(stripped, block_type) ==
    StartsWith(stripped, kBEGIN) /\ block_type = None

\* A slip: a nested opening tag is not counted.
NestingAfterNoIncrement(nesting, stripped) ==
    IF StartsWith(stripped, kEND) THEN nesting - 1 ELSE nesting

\* The nesting counter after a line read inside an open block.
NestingAfter(nesting, stripped) ==
    IF StartsWith(stripped, kBEGIN) THEN nesting + 1
    ELSE IF StartsWith(stripped, kEND) THEN nesting - 1
    ELSE nesting

\* A slip: the block is closed while the counter is still at one.
BlockCompleteEarly(nesting) == nesting <= 1

\* The block is complete when the counter is back to zero.
BlockComplete(nesting) == nesting = 0

\* A slip: every block that is no timezone is taken for an event.
ClassifyOtherAsEvent(st, block_type, block_text) ==
    IF block_type = Some(kVTIMEZONE)
    THEN [st EXCEPT !.timezones = Append(@, block_text)]
    ELSE [st EXCEPT !.events = Append(@, EventRecord(block_text))]

\* What a completed block adds to timezones and events.
Classify(st, block_type, block_text) ==
    IF block_type = Some(kVTIMEZONE)
    THEN [st EXCEPT !.timezones = Append(@, block_text)]
    ELSE IF block_type = Some(kVEVENT)
    THEN [st EXCEPT !.events = Append(@, EventRecord(block_text))]
    ELSE st

\* A slip: blank lines are kept too.
IsHeaderLineAlways(stripped) == TRUE

\* Outside a block a line is kept as a header line when it is not blank.
IsHeaderLine(stripped) == stripped # <<>>

\* The locals of parse_ical before the loop.
ParseStart ==
    [header_lines |-> <<>>, timezones |-> <<>>, events |-> <<>>,
     current_block |-> <<>>, block_type |-> None, nesting |-> 0,
     raised |-> FALSE]

\* One iteration of the line loop of parse_ical.
ParseLine(st, line) ==
    LET stripped == Strip(line)
    IN  IF IsContainerTag(stripped) THEN st
        ELSE IF OpensBlock(stripped, st.block_type)
        THEN LET parts == SplitColonOnce(stripped)
             IN  IF Len(parts) < 2
                 THEN [st EXCEPT !.raised = TRUE]
                 ELSE [st EXCEPT !.block_type = Some(parts[2]),
                                 !.current_block = <<line>>,
                                 !.nesting = 1]
        ELSE IF st.block_type # None
        THEN LET block == Append(st.current_block, line)
                 n == NestingAfter(st.nesting, stripped)
             IN  IF BlockComplete(n)
                 THEN [Classify(st, st.block_type, Join(block, NL))
                          EXCEPT !.block_type = None,
                                 !.current_block = <<>>,
                                 !.nesting = n]
                 ELSE [st EXCEPT !.current_block = block, !.nesting = n]
        ELSE IF IsHeaderLine(stripped)
        THEN [st EXCEPT !.header_lines = Append(@, line)]
        ELSE st

\* The line loop of parse_ical over ls, from the locals st.
RECURSIVE ParseLines(_, _)
ParseLines(st, ls) ==
    IF ls = <<>> \/ st.raised THEN st
    ELSE ParseLines(ParseLine(st, Head(ls)), Tail(ls))

\* A slip: an event block still open at the end is flushed as an event.
ParseResultFlushOpen(st) ==
    [header_lines |-> st.header_lines,
     timezones |-> st.timezones,
     events |-> IF st.block_type = Some(kVEVENT)
                THEN Append(st.events, EventRecord(Join(st.current_block, NL)))
                ELSE st.events]

\* The dict parse_ical returns: a block still open at the end is not in it.
ParseResult(st) ==
    [header_lines |-> st.header_lines,
     timezones |-> st.timezones,
     events |-> st.events]

\* parse_ical(content)
ParseIcal(content) == ParseResult(ParseLines(ParseStart, Splitlines(content)))

\* The text field of every event record, in order.
Texts(evs) == [k \in 1..Len(evs) |-> evs[k].text]

(***************************************************************************)
(* sanitize_filename, build_ics, _calc_skeleton_size                       *)
(***************************************************************************)

\* The characters re.sub(r'[<>:"/\\|?*]', "", name) removes.
IllegalChars == {"<", ">", ":", "\"", "/", "\\", "|", "?", "*"}

RECURSIVE RemoveIllegal(_)
RemoveIllegal(s) ==
    IF s = <<>> THEN <<>>
    ELSE IF Head(s) \in IllegalChars THEN RemoveIllegal(Tail(s))
    ELSE <<Head(s)>> \o RemoveIllegal(Tail(s))

\* str.replace(" ", "_")
SpacesToUnderscores(s) == [k \in 1..Len(s) |-> IF s[k] = " " THEN "_" ELSE s[k]]

\* re.sub(r"_+", "_", s)
RECURSIVE CollapseUnderscores(_)
CollapseUnderscores(s) ==
    IF Len(s) < 2 THEN s
    ELSE IF s[1] = "_" /\ s[2] = "_" THEN CollapseUnderscores(Tail(s))
    ELSE <<s[1]>> \o CollapseUnderscores(Tail(s))

RECURSIVE LStripUnderscores(_)
LStripUnderscores(s) ==
    IF s # <<>> /\ Head(s) = "_" THEN LStripUnderscores(Tail(s)) ELSE s

RECURSIVE RStripUnderscores(_)
RStripUnderscores(s) ==
    IF s # <<>> /\ s[Len(s)] = "_"
    THEN RStripUnderscores(SubSeq(s, 1, Len(s) - 1))
    ELSE s

kUntitled == <<"u", "n", "t", "i", "t", "l", "e", "d">>

\* A slip: spaces become underscores only after the runs were collapsed.
SanitizeFilenameSpacesLate(name) ==
    LET sanitized ==
            RStripUnderscores(LStripUnderscores(
                SpacesToUnderscores(CollapseUnderscores(RemoveIllegal(name)))))
    IN  IF sanitized = <<>> THEN kUntitled ELSE sanitized

\* sanitize_filename(name)
SanitizeFilename(name) ==
    LET sanitized ==
            RStripUnderscores(LStripUnderscores(
                CollapseUnderscores(SpacesToUnderscores(RemoveIllegal(name)))))
    IN  IF sanitized = <<>> THEN kUntitled ELSE sanitized

\* A slip: the timezone blocks are left out of the document.
BuildIcsNoTimezones(hdr, tzs, event_texts) ==
    Join(<<BeginVCalendar>> \o hdr \o event_texts \o <<EndVCalendar>>, NL) \o NL

\* A slip: the parts are joined without the newline between them.
BuildIcsNoNewlines(hdr, tzs, event_texts) ==
    Join(<<BeginVCalendar>> \o hdr \o tzs \o event_texts \o <<EndVCalendar>>, <<>>)
        \o NL

\* build_ics(header_lines, timezones, event_texts)
BuildIcs(hdr, tzs, event_texts) ==
    Join(<<BeginVCalendar>> \o hdr \o tzs \o event_texts \o <<EndVCalendar>>, NL)
        \o NL

\* _calc_skeleton_size(header_lines, timezones)
CalcSkeletonSize(hdr, tzs) == Utf8Len(BuildIcs(hdr, tzs, <<>>))

\* str(d) for one decimal digit
DigitChar(d) == <<"0", "1", "2", "3", "4", "5", "6", "7", "8", "9">>[d + 1]

\* str(n) for n >= 0
RECURSIVE Decimal(_)
Decimal(n) ==
    IF n < 10 THEN <<DigitChar(n)>>
    ELSE Append(Decimal(n \div 10), DigitChar(n % 10))

\* format(n, "03d")
Format03d(n) ==
    LET d == Decimal(n)
    IN  [k \in 1..(IF Len(d) < 3 THEN 3 - Len(d) ELSE 0) |-> "0"] \o d

kIcsSuffix == <<".", "i", "c", "s">>
kPart == <<"p", "a", "r", "t">>
kEvent == <<"e", "v", "e", "n", "t">>

\* A slip: the summary goes into the name as it is.
PerEventFilenameRaw(prefix, idx, summary) ==
    LET summary_part == IF summary # <<>> THEN summary ELSE kEvent
    IN  IF prefix # <<>>
        THEN prefix \o <<"_">> \o Format03d(idx) \o <<"_">> \o summary_part
                 \o kIcsSuffix
        ELSE Format03d(idx) \o <<"_">> \o summary_part \o kIcsSuffix

\* The file name _split_per_event gives output idx.
PerEventFilename(prefix, idx, summary) ==
    LET summary_part ==
            IF summary # <<>> THEN SanitizeFilename(summary) ELSE kEvent
    IN  IF prefix # <<>>
        THEN prefix \o <<"_">> \o Format03d(idx) \o <<"_">> \o summary_part
                 \o kIcsSuffix
        ELSE Format03d(idx) \o <<"_">> \o summary_part \o kIcsSuffix

\* The file name _flush_chunk gives chunk chunk_idx.
ChunkFilename(prefix, idx) ==
    (IF prefix # <<>> THEN prefix ELSE kPart) \o <<"_">> \o Format03d(idx)
        \o kIcsSuffix

(***************************************************************************)
(* _split_by_size: the decisions of one loop iteration                     *)
(***************************************************************************)

\* A slip: the joining newline is not counted.
EventBytesNoNewline(text) == Utf8Len(text)

\* event_bytes: the text's bytes plus the joining newline
EventBytes(text) == Utf8Len(text) + 1

\* A slip: the skeleton is left out of the oversized test.
IsOversizedNoSkeleton(event_bytes, skeleton, max_bytes) ==
    event_bytes > max_bytes

\* The event cannot fit any chunk, even alone with the skeleton.
IsOversized(event_bytes, skeleton, max_bytes) ==
    event_bytes + skeleton > max_bytes

\* A slip: the oversized branch flushes the accumulator even when empty.
FlushBeforeOversizedAlways(cur_events) == TRUE

\* A slip: the oversized branch never flushes what was accumulated.
FlushBeforeOversizedNever(cur_events) == FALSE

\* The oversized branch flushes the accumulator first when it holds events.
FlushBeforeOversized(cur_events) == cur_events # <<>>

\* A slip: an event that fits exactly is taken not to fit.
MustFlushFirstAtLimit(projected_size, max_bytes, cur_events) ==
    projected_size >= max_bytes /\ cur_events # <<>>

\* The accumulator must be flushed before this event is added.
MustFlushFirst(projected_size, max_bytes, cur_events) ==
    projected_size > max_bytes /\ cur_events # <<>>

\* The record of one file written: its name, its content, the event_texts
\* it was built from and whether the oversized branch wrote it.
FileRecord(name, hdr, tzs, event_texts, over) ==
    [name |-> name,
     content |-> BuildIcs(hdr, tzs, event_texts),
     event_texts |-> event_texts,
     oversized |-> over]

\* _flush_chunk: one more file, built from event_texts, named by chunk_idx.
FlushChunk(files, hdr, tzs, event_texts, prefix, idx, over) ==
    Append(files, FileRecord(ChunkFilename(prefix, idx), hdr, tzs, event_texts, over))

\* A slip: the index is not advanced after a flush.
NextChunkIdxSame(idx) == idx

\* chunk_idx += 1 after a flush
NextChunkIdx(idx) == idx + 1

\* A slip: the size restarts at zero instead of the skeleton's size.
EmptyAccumulatorZeroSize(skeleton) == [events |-> <<>>, size |-> 0]

\* The accumulator after a flush: no event, the skeleton's size.
EmptyAccumulator(skeleton) == [events |-> <<>>, size |-> skeleton]

\* A slip: the event replaces the accumulator instead of joining it.
AccumulatorPlusOverwrite(cur_events, cur_size, text, event_bytes) ==
    [events |-> <<text>>, size |-> cur_size + event_bytes]

\* The accumulator after an event is added to it.
AccumulatorPlus(cur_events, cur_size, text, event_bytes) ==
    [events |-> Append(cur_events, text), size |-> cur_size + event_bytes]

\* A slip: the final flush is not guarded.
FinalFlushAlways(cur_events) == TRUE

\* The final flush happens only for a non-empty accumulator.
FinalFlushNeeded(cur_events) == cur_events # <<>>

\* The paths a split returns, in creation order.
Names(files) == [k \in 1..Len(files) |-> files[k].name]

(***************************************************************************)
(* Inputs                                                                  *)
(***************************************************************************)

MaxItems == 3
MaxLines == 4

lineVersion == <<"V", "E", "R", ":", "2">>
lineSummary == kSUMMARY \o <<":", "a", " ", "b">>
lineSummaryParam == kSUMMARY \o <<";", "X", ":", " ", EAcute, "?">>
lineUid == kUID \o <<":", "1">>
lineDtstart == kDTSTART \o <<":", "2">>
lineBeginEvent == kBEGIN \o kVEVENT
lineEndEvent == kEND \o kVEVENT
lineBeginAlarm == kBEGIN \o <<"V", "A">>
lineEndAlarm == <<" ">> \o kEND \o <<"V", "A">>
lineBeginTz == kBEGIN \o kVTIMEZONE
lineEndTz == kEND \o kVTIMEZONE

\* The pieces a well-formed calendar is made of: a property line, a
\* timezone block, events (plain, with a nested alarm, with a parameter
\* and a two-byte character) and a block of another type.
Items ==
    { <<lineVersion>>,
      <<lineBeginTz, lineEndTz>>,
      <<lineBeginEvent, lineSummary, lineEndEvent>>,
      <<lineBeginEvent, lineUid, lineBeginAlarm, lineEndAlarm, lineEndEvent>>,
      <<lineBeginEvent, lineSummaryParam, lineDtstart, lineEndEvent>>,
      <<lineBeginAlarm, lineSummary, lineEndAlarm>> }

\* The line endings an input file is written with.
LineEndings == { <<"\n">>, <<"\r", "\n">> }

RECURSIVE SeqsUpTo(_, _)
SeqsUpTo(S, n) ==
    IF n = 0 THEN {<<>>}
    ELSE LET shorter == SeqsUpTo(S, n - 1)
         IN  shorter \cup {Append(q, x) : q \in {r \in shorter : Len(r) = n - 1}, x \in S}

\* Every line followed by the line ending eol.
Terminated(ls, eol) == Join([k \in 1..Len(ls) |-> ls[k] \o eol], <<>>)

\* Calendars made of up to MaxItems items inside the container.
WellFormedContents ==
    { Terminated(<<BeginVCalendar>> \o Flatten(items) \o <<EndVCalendar>>, eol) :
        items \in SeqsUpTo(Items, MaxItems), eol \in LineEndings }

\* The lines arbitrary input is made of, well-formed or not.
LineAlphabet ==
    { lineBeginEvent, lineEndEvent, lineBeginAlarm, lineEndAlarm, lineBeginTz,
      EndVCalendar, lineSummary, <<>> }

\* Every text of up to MaxLines lines over LineAlphabet.
ArbitraryContents ==
    { Terminated(ls, NL) : ls \in SeqsUpTo(LineAlphabet, MaxLines) }

\* max_size_bytes > 0 as given by the caller: below every skeleton, exactly
\* the empty skeleton plus the smallest event, room for one event, exactly
\* the smallest plus the largest event, room for several events.
MaxSizeChoices == {1, 66, 80, 115, 150}

\* The --prefix option.
Prefixes == { <<>>, <<"c", "a", "l">> }

(***************************************************************************)
(* State                                                                   *)
(***************************************************************************)

VARIABLES
    input_file,      \* the file at input_path: None, or Some(its text)
    pc,              \* where the run is
    lines,           \* parse_ical: content.splitlines()
    line_idx,        \* parse_ical: the number of lines the loop has read
    header_lines,    \* parse_ical: header_lines
    timezones,       \* parse_ical: timezones
    events,          \* parse_ical: events
    current_block,   \* parse_ical: current_block
    block_type,      \* parse_ical: block_type
    nesting,         \* parse_ical: nesting
    max_size_bytes,  \* the size limit of the run, 0 in per-event mode
    prefix,          \* the file name prefix of the run
    out_dir_exists,  \* the output directory exists
    ev_idx,          \* the number of events the split loop has taken
    skeleton_size,   \* _split_by_size: skeleton_size
    current_events,  \* _split_by_size: current_events
    current_size,    \* _split_by_size: current_size
    chunk_idx,       \* _split_by_size: chunk_idx
    created_files,   \* the files written so far, in order
    warnings,        \* the warnings printed so far
    result,          \* None, or Some(the list of paths returned)
    returned_by,     \* the function whose return statement gave result
    fn_args,         \* the arguments of a function called on its own
    fn_results       \* the values its successive calls returned

parser_vars ==
    <<lines, line_idx, header_lines, timezones, events, current_block,
      block_type, nesting>>

split_vars ==
    <<max_size_bytes, prefix, out_dir_exists, ev_idx, skeleton_size,
      current_events, current_size, chunk_idx, created_files, warnings,
      result, returned_by>>

fn_vars == <<fn_args, fn_results>>

vars == <<input_file, pc, parser_vars, split_vars, fn_vars>>

\* The locals of parse_ical as one record.
ParserLocals ==
    [header_lines |-> header_lines, timezones |-> timezones, events |-> events,
     current_block |-> current_block, block_type |-> block_type,
     nesting |-> nesting, raised |-> FALSE]

\* No function has been entered: every local is at its initial value.
InitLocals ==
    /\ lines = <<>>
    /\ line_idx = 0
    /\ header_lines = <<>>
    /\ timezones = <<>>
    /\ events = <<>>
    /\ current_block = <<>>
    /\ block_type = None
    /\ nesting = 0
    /\ max_size_bytes = 0
    /\ prefix = <<>>
    /\ out_dir_exists = FALSE
    /\ ev_idx = 0
    /\ skeleton_size = 0
    /\ current_events = <<>>
    /\ current_size = 0
    /\ chunk_idx = 0
    /\ created_files = <<>>
    /\ warnings = <<>>
    /\ result = None
    /\ returned_by = "nobody"

InitRest ==
    /\ pc = "start"
    /\ InitLocals
    /\ fn_args = <<>>
    /\ fn_results = <<>>

\* A run on a well-formed calendar, or on a path where there is no file.
Init ==
    /\ input_file \in {None} \cup {Some(c) : c \in WellFormedContents}
    /\ InitRest

\* A run on arbitrary lines, or on a path where there is no file.
InitLines ==
    /\ input_file \in {None} \cup {Some(c) : c \in ArbitraryContents}
    /\ InitRest

(***************************************************************************)
(* split_ical and parse_ical                                               *)
(***************************************************************************)

\* split_ical: the input path does not exist, sys.exit(1).
SplitIcalMissing ==
    /\ pc = "start"
    /\ input_file = None
    /\ pc' = "exit1"
    /\ UNCHANGED <<fn_vars, input_file, parser_vars, split_vars>>

\* split_ical reads the file and parse_ical splits it into lines.
SplitIcalRead ==
    /\ pc = "start"
    /\ input_file # None
    /\ lines' = Splitlines(ReadText(input_file[1]))
    /\ line_idx' = 0
    /\ header_lines' = ParseStart.header_lines
    /\ timezones' = ParseStart.timezones
    /\ events' = ParseStart.events
    /\ current_block' = ParseStart.current_block
    /\ block_type' = ParseStart.block_type
    /\ nesting' = ParseStart.nesting
    /\ pc' = "parse"
    /\ UNCHANGED <<fn_vars, input_file, split_vars>>

\* parse_ical: one iteration of the line loop.
ParseStep ==
    /\ pc = "parse"
    /\ line_idx < Len(lines)
    /\ LET st == ParseLine(ParserLocals, lines[line_idx + 1])
       IN  /\ header_lines' = st.header_lines
           /\ timezones' = st.timezones
           /\ events' = st.events
           /\ current_block' = st.current_block
           /\ block_type' = st.block_type
           /\ nesting' = st.nesting
           /\ pc' = IF st.raised THEN "raised" ELSE "parse"
    /\ line_idx' = line_idx + 1
    /\ UNCHANGED <<fn_vars, input_file, lines, split_vars>>

\* parse_ical: the loop is over, the dict is returned.
ParseReturn ==
    /\ pc = "parse"
    /\ line_idx = Len(lines)
    /\ LET doc == ParseResult(ParserLocals)
       IN  /\ header_lines' = doc.header_lines
           /\ timezones' = doc.timezones
           /\ events' = doc.events
    /\ pc' = "parsed"
    /\ UNCHANGED <<fn_vars, input_file, lines, line_idx, current_block, block_type,
                   nesting, split_vars>>

\* split_ical: no event, a warning and an empty list.
SplitIcalNoEvents ==
    /\ pc = "parsed"
    /\ events = <<>>
    /\ warnings' = Append(warnings, [kind |-> "no_events"])
    /\ result' = Some(<<>>)
    /\ returned_by' = "split_ical"
    /\ pc' = "done"
    /\ UNCHANGED <<fn_vars, input_file, parser_vars, max_size_bytes, prefix,
                   out_dir_exists, ev_idx, skeleton_size, current_events,
                   current_size, chunk_idx, created_files>>

\* The first lines of _split_by_size.
EnterSplitBySize(max_bytes, pfx) ==
    /\ max_size_bytes' = max_bytes
    /\ prefix' = pfx
    /\ skeleton_size' = CalcSkeletonSize(header_lines, timezones)
    /\ created_files' = <<>>
    /\ current_events' = <<>>
    /\ current_size' = skeleton_size'
    /\ chunk_idx' = 1
    /\ ev_idx' = 0
    /\ pc' = "by_size"
    /\ UNCHANGED <<fn_vars, input_file, parser_vars, warnings, result, returned_by>>

\* The first lines of _split_per_event.
EnterSplitPerEvent(pfx) ==
    /\ max_size_bytes' = 0
    /\ prefix' = pfx
    /\ created_files' = <<>>
    /\ ev_idx' = 0
    /\ pc' = "per_event"
    /\ UNCHANGED <<fn_vars, input_file, parser_vars, skeleton_size, current_events,
                   current_size, chunk_idx, warnings, result, returned_by>>

\* split_ical: there are events, the directory is made and the split chosen
\* by max_size_bytes is called.
SplitIcalBySize ==
    /\ pc = "parsed"
    /\ events # <<>>
    /\ out_dir_exists' = TRUE
    /\ \E m \in MaxSizeChoices, pfx \in Prefixes : EnterSplitBySize(m, pfx)

SplitIcalPerEvent ==
    /\ pc = "parsed"
    /\ events # <<>>
    /\ out_dir_exists' = TRUE
    /\ \E pfx \in Prefixes : EnterSplitPerEvent(pfx)

\* _split_by_size and _split_per_event called on a parsed document by
\* another caller, who passes a directory that exists.
CallSplitBySize ==
    /\ pc = "parsed"
    /\ out_dir_exists' = TRUE
    /\ \E m \in MaxSizeChoices, pfx \in Prefixes : EnterSplitBySize(m, pfx)

CallSplitPerEvent ==
    /\ pc = "parsed"
    /\ out_dir_exists' = TRUE
    /\ \E pfx \in Prefixes : EnterSplitPerEvent(pfx)

(***************************************************************************)
(* _split_per_event                                                        *)
(***************************************************************************)

\* One iteration: the next event is written as a file of its own.
PerEventStep ==
    /\ pc = "per_event"
    /\ ev_idx < Len(events)
    /\ LET idx == ev_idx + 1
           event == events[idx]
       IN  created_files' =
               Append(created_files,
                      FileRecord(PerEventFilename(prefix, idx, event.summary),
                                 header_lines, timezones, <<event.text>>, FALSE))
    /\ ev_idx' = ev_idx + 1
    /\ UNCHANGED <<fn_vars, input_file, pc, parser_vars, max_size_bytes, prefix,
                   out_dir_exists, skeleton_size, current_events, current_size,
                   chunk_idx, warnings, result, returned_by>>

\* The loop is over: created_files is returned.
PerEventReturn ==
    /\ pc = "per_event"
    /\ ev_idx = Len(events)
    /\ result' = Some(Names(created_files))
    /\ returned_by' = "_split_per_event"
    /\ pc' = "done"
    /\ UNCHANGED <<fn_vars, input_file, parser_vars, max_size_bytes, prefix,
                   out_dir_exists, ev_idx, skeleton_size, current_events,
                   current_size, chunk_idx, created_files, warnings>>

(***************************************************************************)
(* _split_by_size                                                          *)
(***************************************************************************)

\* The event the loop takes next, and its event_bytes.
NextEvent == events[ev_idx + 1]
NextEventBytes == EventBytes(NextEvent.text)

\* The oversized branch: the accumulator, if any, is flushed, then the
\* event is flushed alone with a warning.
SizeOversized ==
    /\ pc = "by_size"
    /\ ev_idx < Len(events)
    /\ IsOversized(NextEventBytes, skeleton_size, max_size_bytes)
    /\ LET flushed_first == FlushBeforeOversized(current_events)
           files1 == IF flushed_first
                     THEN FlushChunk(created_files, header_lines, timezones,
                                     current_events, prefix, chunk_idx, FALSE)
                     ELSE created_files
           idx1 == IF flushed_first THEN NextChunkIdx(chunk_idx) ELSE chunk_idx
           acc == IF flushed_first
                  THEN EmptyAccumulator(skeleton_size)
                  ELSE [events |-> current_events, size |-> current_size]
       IN  /\ created_files' =
                  FlushChunk(files1, header_lines, timezones,
                             <<NextEvent.text>>, prefix, idx1, TRUE)
           /\ chunk_idx' = NextChunkIdx(idx1)
           /\ current_events' = acc.events
           /\ current_size' = acc.size
    /\ warnings' = Append(warnings,
                          [kind |-> "oversized",
                           summary |-> NextEvent.summary,
                           size |-> NextEventBytes + skeleton_size,
                           limit |-> max_size_bytes])
    /\ ev_idx' = ev_idx + 1
    /\ UNCHANGED <<fn_vars, input_file, pc, parser_vars, max_size_bytes, prefix,
                   out_dir_exists, skeleton_size, result, returned_by>>

\* The event does not fit the accumulator: the accumulator is flushed and
\* the event starts the next one.
SizeFlushThenAdd ==
    /\ pc = "by_size"
    /\ ev_idx < Len(events)
    /\ ~IsOversized(NextEventBytes, skeleton_size, max_size_bytes)
    /\ MustFlushFirst(current_size + NextEventBytes, max_size_bytes, current_events)
    /\ created_files' = FlushChunk(created_files, header_lines, timezones,
                                   current_events, prefix, chunk_idx, FALSE)
    /\ chunk_idx' = NextChunkIdx(chunk_idx)
    /\ LET empty == EmptyAccumulator(skeleton_size)
           acc == AccumulatorPlus(empty.events, empty.size, NextEvent.text,
                                  NextEventBytes)
       IN  /\ current_events' = acc.events
           /\ current_size' = acc.size
    /\ ev_idx' = ev_idx + 1
    /\ UNCHANGED <<fn_vars, input_file, pc, parser_vars, max_size_bytes, prefix,
                   out_dir_exists, skeleton_size, warnings, result, returned_by>>

\* The event is added to the accumulator.
SizeAdd ==
    /\ pc = "by_size"
    /\ ev_idx < Len(events)
    /\ ~IsOversized(NextEventBytes, skeleton_size, max_size_bytes)
    /\ ~MustFlushFirst(current_size + NextEventBytes, max_size_bytes, current_events)
    /\ LET acc == AccumulatorPlus(current_events, current_size, NextEvent.text,
                                  NextEventBytes)
       IN  /\ current_events' = acc.events
           /\ current_size' = acc.size
    /\ ev_idx' = ev_idx + 1
    /\ UNCHANGED <<fn_vars, input_file, pc, parser_vars, max_size_bytes, prefix,
                   out_dir_exists, skeleton_size, chunk_idx, created_files,
                   warnings, result, returned_by>>

\* The loop is over: a non-empty accumulator is flushed, created_files is
\* returned.
SizeReturn ==
    /\ pc = "by_size"
    /\ ev_idx = Len(events)
    /\ created_files' =
           IF FinalFlushNeeded(current_events)
           THEN FlushChunk(created_files, header_lines, timezones,
                           current_events, prefix, chunk_idx, FALSE)
           ELSE created_files
    /\ result' = Some(Names(created_files'))
    /\ returned_by' = "_split_by_size"
    /\ pc' = "done"
    /\ UNCHANGED <<fn_vars, input_file, parser_vars, max_size_bytes, prefix,
                   out_dir_exists, ev_idx, skeleton_size, current_events,
                   current_size, chunk_idx, warnings>>

Next ==
    \/ SplitIcalMissing
    \/ SplitIcalRead
    \/ ParseStep
    \/ ParseReturn
    \/ SplitIcalNoEvents
    \/ SplitIcalBySize
    \/ SplitIcalPerEvent
    \/ CallSplitBySize
    \/ CallSplitPerEvent
    \/ PerEventStep
    \/ PerEventReturn
    \/ SizeOversized
    \/ SizeFlushThenAdd
    \/ SizeAdd
    \/ SizeReturn

\* Runs on well-formed calendars.
Spec == Init /\ [][Next]_vars

\* Runs on arbitrary lines.
SpecLines == InitLines /\ [][Next]_vars

(***************************************************************************)
(* Properties of _split_by_size                                            *)
(***************************************************************************)

InSizeMode ==
    pc = "by_size" \/ (pc = "done" /\ returned_by = "_split_by_size")

\* The event_texts of every file written, in order.
ChunkTexts == [k \in 1..Len(created_files) |-> created_files[k].event_texts]

\* The bytes the events of a chunk add to its file: each text and one
\* newline.
RECURSIVE SumEventBytes(_)
SumEventBytes(texts) ==
    IF texts = <<>> THEN 0
    ELSE Utf8Len(Head(texts)) + 1 + SumEventBytes(Tail(texts))

\* C1: in size-bounded mode the event texts of the flushed chunks, in flush
\* order and within-chunk order, followed by the events still accumulated,
\* are exactly the events taken so far in their original order; at the end
\* they are all the events, none lost, duplicated or reordered.
C1_OrderPreserved ==
    InSizeMode =>
        /\ Flatten(ChunkTexts) \o (IF pc = "by_size" THEN current_events ELSE <<>>)
               = Texts(SubSeq(events, 1, ev_idx))
        /\ pc = "done" => ev_idx = Len(events)

C1_Witness ==
    /\ pc = "done"
    /\ returned_by = "_split_by_size"
    /\ Len(events) >= 3
    /\ Len(created_files) = 2
    /\ \E k \in 1..Len(created_files) : Len(created_files[k].event_texts) >= 2

\* C2: in size-bounded mode every file that the oversized branch did not
\* write has a byte size of at most max_size_bytes.
C2_SizeBound ==
    InSizeMode =>
        \A k \in 1..Len(created_files) :
            ~created_files[k].oversized =>
                Utf8Len(created_files[k].content) <= max_size_bytes

C2_Witness ==
    /\ pc = "done"
    /\ returned_by = "_split_by_size"
    /\ \E k \in 1..Len(created_files) :
           /\ ~created_files[k].oversized
           /\ Len(created_files[k].event_texts) >= 2
           /\ Utf8Len(created_files[k].content) = max_size_bytes
    /\ Len(created_files) >= 2

\* C3: the byte size of every file built is the size of the same document
\* without events plus, for each of its events, the text's bytes plus one;
\* and at every iteration of the _split_by_size loop current_size is the
\* byte size of the document built from current_events.
C3_SkeletonConsistency ==
    LET skeleton == Utf8Len(BuildIcs(header_lines, timezones, <<>>))
    IN  /\ \A k \in 1..Len(created_files) :
               Utf8Len(created_files[k].content)
                   = skeleton + SumEventBytes(created_files[k].event_texts)
        /\ pc = "by_size" =>
               current_size
                   = Utf8Len(BuildIcs(header_lines, timezones, current_events))

C3_Witness ==
    /\ pc = "by_size"
    /\ Len(current_events) >= 2
    /\ created_files # <<>>
    /\ \E k \in 1..Len(current_events) :
           \E j \in 1..Len(current_events[k]) : current_events[k][j] = EAcute

\* The next event of the loop is oversized, by the claim's own test.
NextIsOversized ==
    /\ pc = "by_size"
    /\ ev_idx < Len(events)
    /\ Utf8Len(events[ev_idx + 1].text) + 1 + skeleton_size > max_size_bytes

\* C4: when the next event is oversized, the step flushes a non-empty
\* accumulator as a chunk of its own, then the event as a chunk with that
\* event only; the run goes on with the next event, from an empty
\* accumulator of the skeleton's size; and no file ever holds an oversized
\* event together with another event.
C4_OversizedAlone ==
    [][ /\ NextIsOversized =>
            /\ [k \in 1..Len(created_files') |-> created_files'[k].event_texts]
                   = ChunkTexts
                       \o (IF current_events # <<>> THEN <<current_events>> ELSE <<>>)
                       \o << <<events[ev_idx + 1].text>> >>
            /\ created_files'[Len(created_files')].oversized
            /\ pc' = "by_size"
            /\ ev_idx' = ev_idx + 1
            /\ current_events' = <<>>
            /\ current_size' = skeleton_size
            /\ Len(warnings') = Len(warnings) + 1
        /\ InSizeMode' =>
            \A k \in 1..Len(created_files') :
                \A j \in 1..Len(created_files'[k].event_texts) :
                    Utf8Len(created_files'[k].event_texts[j]) + 1 + skeleton_size'
                            > max_size_bytes'
                        => Len(created_files'[k].event_texts) = 1
      ]_vars

C4_Witness ==
    /\ pc = "by_size"
    /\ ev_idx < Len(events)
    /\ current_events = <<>>
    /\ Len(created_files) >= 2
    /\ created_files[Len(created_files)].oversized
    /\ ~created_files[Len(created_files) - 1].oversized
    /\ ~IsOversized(NextEventBytes, skeleton_size, max_size_bytes)

(***************************************************************************)
(* The block structure of a line sequence, by tag matching                 *)
(***************************************************************************)

\* An opening or closing tag line that is not the container's own.
IsBeginLine(line) ==
    StartsWith(Strip(line), kBEGIN) /\ Strip(line) # BeginVCalendar
IsEndLine(line) ==
    StartsWith(Strip(line), kEND) /\ Strip(line) # EndVCalendar

\* Opening tags minus closing tags among ls[s..e].
TagDepth(ls, s, e) ==
    Cardinality({k \in s..e : IsBeginLine(ls[k])})
        - Cardinality({k \in s..e : IsEndLine(ls[k])})

\* The line that closes the block opened at line s: the first one where the
\* tags from s on are balanced; 0 when the block is never closed.
MatchEnd(ls, s) ==
    LET closers == {e \in s..Len(ls) : TagDepth(ls, s, e) = 0}
    IN  IF closers = {} THEN 0
        ELSE CHOOSE e \in closers : \A f \in closers : e <= f

\* The top-level blocks of ls from line k on, as <<first, last>> pairs.
RECURSIVE TopBlocksFrom(_, _)
TopBlocksFrom(ls, k) ==
    IF k > Len(ls) THEN <<>>
    ELSE IF ~IsBeginLine(ls[k]) THEN TopBlocksFrom(ls, k + 1)
    ELSE LET e == MatchEnd(ls, k)
         IN  IF e = 0 THEN <<>>
             ELSE << <<k, e>> >> \o TopBlocksFrom(ls, e + 1)

TopBlocks(ls) == TopBlocksFrom(ls, 1)

\* The line that opens the block still open at the end of ls, 0 if none.
RECURSIVE DanglingFrom(_, _)
DanglingFrom(ls, k) ==
    IF k > Len(ls) THEN 0
    ELSE IF ~IsBeginLine(ls[k]) THEN DanglingFrom(ls, k + 1)
    ELSE LET e == MatchEnd(ls, k)
         IN  IF e = 0 THEN k ELSE DanglingFrom(ls, e + 1)

DanglingStart(ls) == DanglingFrom(ls, 1)

\* The type a block's opening line names.
TagType(line) == SubSeq(Strip(line), Len(kBEGIN) + 1, Len(Strip(line)))

\* The top-level blocks of ls of type t.
BlocksOfType(ls, t) ==
    SelectSeq(TopBlocks(ls), LAMBDA b : TagType(ls[b[1]]) = t)

\* ls without the lines of its completed top-level blocks of other types.
WithoutOtherBlocks(ls) ==
    LET dropped == {k \in 1..Len(ls) :
                       \E j \in 1..Len(TopBlocks(ls)) :
                           /\ TopBlocks(ls)[j][1] <= k
                           /\ k <= TopBlocks(ls)[j][2]
                           /\ TagType(ls[TopBlocks(ls)[j][1]])
                                  \notin {kVEVENT, kVTIMEZONE}}
        Keep(k) == k \notin dropped
        idx == SelectSeq([k \in 1..Len(ls) |-> k], Keep)
    IN  [k \in 1..Len(idx) |-> ls[idx[k]]]

FirstLine(text) == Splitlines(text)[1]
LastLine(text) == Splitlines(text)[Len(Splitlines(text))]

\* The lines the loop has read.
LinesRead == SubSeq(lines, 1, line_idx)

InParser == pc \in {"parse", "parsed"}

(***************************************************************************)
(* Properties of parse_ical                                                *)
(***************************************************************************)

\* C5: at every point of the line loop, events and timezones hold one entry
\* for each completed top-level VEVENT and VTIMEZONE block of the lines
\* read, and each entry runs from the block's opening line to the closing
\* tag line that balances it; nested blocks end no block early and give no
\* entry of their own; a block is open exactly when the lines read end
\* inside an unbalanced block.
C5_BlocksWhole ==
    InParser =>
        LET evb == BlocksOfType(LinesRead, kVEVENT)
            tzb == BlocksOfType(LinesRead, kVTIMEZONE)
        IN  /\ Len(events) = Len(evb)
            /\ Len(timezones) = Len(tzb)
            /\ \A k \in 1..Len(evb) :
                   /\ FirstLine(events[k].text) = lines[evb[k][1]]
                   /\ LastLine(events[k].text) = lines[evb[k][2]]
            /\ \A k \in 1..Len(tzb) :
                   /\ FirstLine(timezones[k]) = lines[tzb[k][1]]
                   /\ LastLine(timezones[k]) = lines[tzb[k][2]]
            /\ (block_type # None) <=> (DanglingStart(LinesRead) # 0)

C5_Witness ==
    /\ pc = "parsed"
    /\ Len(events) = 1
    /\ Len(Splitlines(events[1].text)) = 4
    /\ Splitlines(events[1].text)[2] = lineBeginEvent
    /\ Splitlines(events[1].text)[3] = lineEndEvent

\* C6: the text of every completed VEVENT block is the input lines from its
\* opening tag line to its matching closing tag line, all of them, joined
\* by newlines.
C6_VerbatimText ==
    InParser =>
        LET evb == BlocksOfType(LinesRead, kVEVENT)
        IN  \A k \in 1..Len(evb) :
                k <= Len(events) =>
                    events[k].text
                        = Join(SubSeq(lines, evb[k][1], evb[k][2]), NL)

\* C8: parse_ical raises nothing; when the input ends inside an open block,
\* the result is the result for the input cut just before the line that
\* opened the block: the open block adds nothing and what was completed
\* before it is returned.
C8_DanglingDropped ==
    /\ pc # "raised"
    /\ (pc = "parsed" /\ block_type # None) =>
           /\ DanglingStart(lines) # 0
           /\ [header_lines |-> header_lines, timezones |-> timezones,
               events |-> events]
                  = ParseResult(ParseLines(ParseStart,
                                           SubSeq(lines, 1, DanglingStart(lines) - 1)))

C8_Witness ==
    /\ pc = "parsed"
    /\ block_type = Some(kVEVENT)
    /\ Len(current_block) = 2
    /\ Len(events) = 1

\* C9: a completed top-level block of a type other than VTIMEZONE and
\* VEVENT changes nothing: the result is the result for the input without
\* the lines of such blocks.
C9_OtherBlocksDropped ==
    pc = "parsed" =>
        [header_lines |-> header_lines, timezones |-> timezones,
         events |-> events]
            = ParseResult(ParseLines(ParseStart, WithoutOtherBlocks(lines)))

C9_Witness ==
    /\ pc = "parsed"
    /\ Len(lines) = 4
    /\ IsBeginLine(lines[1])
    /\ TagType(lines[1]) \notin {kVEVENT, kVTIMEZONE}
    /\ MatchEnd(lines, 1) = 3
    /\ lines[2] = lineSummary
    /\ lines[4] = lineSummary
    /\ header_lines = <<lineSummary>>

(***************************************************************************)
(* Properties of the whole run                                             *)
(***************************************************************************)

\* The events parse_ical finds in a written file.
Reparsed(file) == ParseIcal(file.content).events

\* C7: when a split has returned, every event of the parsed input that a
\* written file contains is found again by parse_ical in that file's
\* content, with the same text and the same summary, uid and dtstart.
C7_RoundTrip ==
    (pc = "done" /\ returned_by # "split_ical") =>
        \A f \in 1..Len(created_files) :
            LET again == Reparsed(created_files[f])
                texts == created_files[f].event_texts
            IN  \A k \in 1..Len(events) :
                    (\E j \in 1..Len(texts) : texts[j] = events[k].text)
                        => \E r \in 1..Len(again) : again[r] = events[k]

C7_Witness ==
    /\ pc = "done"
    /\ returned_by = "_split_by_size"
    /\ header_lines # <<>>
    /\ \E f \in 1..Len(created_files) :
           /\ Len(created_files[f].event_texts) = 2
           /\ created_files[f].event_texts[1] # created_files[f].event_texts[2]
           /\ \E k \in 1..Len(events) :
                  /\ events[k].text = created_files[f].event_texts[2]
                  /\ events[k].summary # <<>>

\* C10: a document without events gives no file and an empty list, from
\* either split and from split_ical; split_ical warns and returns before
\* the output directory is made.
C10_NoEvents ==
    events = <<>> =>
        /\ created_files = <<>>
        /\ pc = "done" =>
               /\ result = Some(<<>>)
               /\ returned_by = "split_ical" =>
                      /\ ~out_dir_exists
                      /\ warnings = <<[kind |-> "no_events"]>>

C10_Witness ==
    /\ pc = "done"
    /\ events = <<>>
    /\ timezones # <<>>
    /\ returned_by = "_split_by_size"

(***************************************************************************)
(* Properties of _split_per_event and of the file names                    *)
(***************************************************************************)

InPerEventMode ==
    pc = "per_event" \/ (pc = "done" /\ returned_by = "_split_per_event")

\* k < 1000 written with three decimal digits.
ThreeDigits(k) ==
    LET digits == <<"0", "1", "2", "3", "4", "5", "6", "7", "8", "9">>
    IN  <<digits[(k \div 100) + 1], digits[((k \div 10) % 10) + 1],
          digits[(k % 10) + 1]>>

\* The lines of a document with the given header lines, timezone texts and
\* event texts inside the container.
DocumentLines(hdr, tzs, texts) ==
    <<BeginVCalendar>> \o hdr
        \o Flatten([k \in 1..Len(tzs) |-> Splitlines(tzs[k])])
        \o Flatten([k \in 1..Len(texts) |-> Splitlines(texts[k])])
        \o <<EndVCalendar>>

kTeamSync == <<"T", "e", "a", "m", " ", "S", "y", "n", "c">>
kName001TeamSync ==
    <<"0", "0", "1", "_", "T", "e", "a", "m", "_", "S", "y", "n", "c",
      ".", "i", "c", "s">>
kName002Event ==
    <<"0", "0", "2", "_", "e", "v", "e", "n", "t", ".", "i", "c", "s">>

\* C11: in per-event mode the k-th event taken gives the k-th file; the file
\* is named [prefix_]<k in three digits>_<sanitized summary, or "event" for
\* an empty summary>.ics and is the document of the shared header lines and
\* timezones with the k-th event's text and no other; at the end there are
\* as many files as events.  Summaries "Team Sync" and "" without a prefix
\* give 001_Team_Sync.ics and 002_event.ics.
C11_PerEvent ==
    /\ InPerEventMode =>
        /\ Len(created_files) = ev_idx
        /\ pc = "done" =>
               /\ ev_idx = Len(events)
               /\ result = Some(Names(created_files))
        /\ \A k \in 1..Len(created_files) :
               /\ created_files[k].name
                      = (IF prefix # <<>> THEN prefix \o <<"_">> ELSE <<>>)
                            \o ThreeDigits(k) \o <<"_">>
                            \o (IF events[k].summary = <<>>
                                THEN <<"e", "v", "e", "n", "t">>
                                ELSE SanitizeFilename(events[k].summary))
                            \o <<".", "i", "c", "s">>
               /\ created_files[k].event_texts = <<events[k].text>>
               /\ Splitlines(created_files[k].content)
                      = DocumentLines(header_lines, timezones, <<events[k].text>>)
    /\ PerEventFilename(<<>>, 1, kTeamSync) = kName001TeamSync
    /\ PerEventFilename(<<>>, 2, <<>>) = kName002Event

C11_Witness ==
    /\ pc = "done"
    /\ returned_by = "_split_per_event"
    /\ prefix # <<>>
    /\ timezones # <<>>
    /\ Len(created_files) = 2
    /\ events[1].summary = <<"a", " ", "b">>
    /\ events[2].summary = <<>>

\* C12: in size-bounded mode the m-th file flushed is named
\* <prefix, or "part" without one>_<m in three digits>.ics, whichever
\* branch flushed it: the indices run 1, 2, 3, ... in flush order with no
\* gap and none repeated, and inside the loop chunk_idx is the index of
\* the next flush.
C12_ChunkNumbering ==
    InSizeMode =>
        /\ \A m \in 1..Len(created_files) :
               created_files[m].name
                   = (IF prefix # <<>> THEN prefix ELSE <<"p", "a", "r", "t">>)
                         \o <<"_">> \o ThreeDigits(m) \o <<".", "i", "c", "s">>
        /\ pc = "by_size" => chunk_idx = Len(created_files) + 1
        /\ pc = "done" => result = Some(Names(created_files))

C12_Witness ==
    /\ pc = "done"
    /\ returned_by = "_split_by_size"
    /\ prefix = <<>>
    /\ Len(created_files) = 3
    /\ ~created_files[1].oversized
    /\ created_files[2].oversized
    /\ ~created_files[3].oversized

(***************************************************************************)
(* The scenario: skeleton 50, limit 400, events of 100, 200 and 5000 bytes *)
(***************************************************************************)

\* n filler characters.
Fill(n) == [k \in 1..n |-> "x"]

\* A continuation line: a space and n - 1 filler characters.
Continuation(n) == <<" ">> \o Fill(n - 1)

\* Two property lines that bring the empty document to 50 bytes.
ScenarioHeader ==
    << <<"V", "E", "R", "S", "I", "O", "N", ":", "2", ".", "0">>,
       <<"X", "-", "A", ":", "1", "2", "3">> >>

\* Events of 99, 199 and 4999 bytes of text, lines of at most 87 bytes.
ScenarioEvent1 ==
    <<lineBeginEvent, kSUMMARY \o <<":">> \o Fill(67), lineEndEvent>>
ScenarioEvent2 ==
    <<lineBeginEvent, kUID \o <<":">> \o Fill(83), Continuation(87), lineEndEvent>>
ScenarioEvent3 ==
    <<lineBeginEvent>> \o [k \in 1..62 |-> Continuation(79)]
        \o <<Continuation(15), lineEndEvent>>

\* The scenario's input file, in either line ending.
ScenarioContents ==
    { Terminated(<<BeginVCalendar>> \o ScenarioHeader \o ScenarioEvent1
                     \o ScenarioEvent2 \o ScenarioEvent3 \o <<EndVCalendar>>, eol) :
        eol \in LineEndings }

InitScenario ==
    /\ input_file \in {Some(c) : c \in ScenarioContents}
    /\ InitRest

\* split_ical with max_size_bytes = 400.
ScenarioSplit ==
    /\ pc = "parsed"
    /\ events # <<>>
    /\ out_dir_exists' = TRUE
    /\ \E pfx \in Prefixes : EnterSplitBySize(400, pfx)

NextScenario ==
    \/ SplitIcalRead
    \/ ParseStep
    \/ ParseReturn
    \/ ScenarioSplit
    \/ SizeOversized
    \/ SizeAdd
    \/ SizeReturn

\* Runs of the scenario.
SpecScenario == InitScenario /\ [][NextScenario]_vars

\* The scenario's figures hold of the run.
ScenarioHolds ==
    /\ skeleton_size = 50
    /\ max_size_bytes = 400
    /\ [k \in 1..Len(events) |-> Utf8Len(events[k].text) + 1] = <<100, 200, 5000>>

\* C13: with a skeleton of 50 bytes, a limit of 400 and events of 100, 200
\* and 5000 bytes, the run ends with exactly two files: the first holds
\* events 1 and 2 and is 350 bytes, the second holds event 3 alone, written
\* by the oversized branch with a warning of 5050 bytes against 400.
C13_Scenario ==
    (pc = "done" /\ ScenarioHolds) =>
        /\ Len(created_files) = 2
        /\ created_files[1].event_texts = <<events[1].text, events[2].text>>
        /\ ~created_files[1].oversized
        /\ Utf8Len(created_files[1].content) = 350
        /\ created_files[2].event_texts = <<events[3].text>>
        /\ created_files[2].oversized
        /\ Utf8Len(created_files[2].content) = 5050
        /\ Len(warnings) = 1
        /\ warnings[1].kind = "oversized"
        /\ warnings[1].size = 5050
        /\ warnings[1].limit = 400
        /\ Len(result[1]) = 2

C13_Witness ==
    /\ pc = "done"
    /\ ScenarioHolds
    /\ Len(created_files) = 2
    /\ returned_by = "_split_by_size"

(***************************************************************************)
(* sanitize_filename on its own                                            *)
(***************************************************************************)

MaxNameLen == 4

\* Illegal characters, the space, the underscore and other characters.
NameAlphabet == {":", "*", " ", "_", "a", "u"}

\* The names sanitize_filename is called with.
NameStrings == SeqsUpTo(NameAlphabet, MaxNameLen) \cup {kUntitled}

InitSanitize ==
    /\ input_file = None
    /\ pc = "sanitize"
    /\ InitLocals
    /\ fn_args \in {<<x>> : x \in NameStrings}
    /\ fn_results = <<>>

\* sanitize_filename is called on the name, then on what it returned.
CallSanitize ==
    /\ pc = "sanitize"
    /\ Len(fn_results) < 2
    /\ fn_results' = Append(fn_results,
                            SanitizeFilename(IF fn_results = <<>>
                                             THEN fn_args[1]
                                             ELSE fn_results[Len(fn_results)]))
    /\ UNCHANGED <<fn_args, input_file, pc, parser_vars, split_vars>>

NextSanitize == CallSanitize

\* sanitize_filename applied once and twice to every name.
SpecSanitize == InitSanitize /\ [][NextSanitize]_vars

\* C14: sanitizing what sanitize_filename returned changes nothing, and the
\* fallback token "untitled" maps to itself.
C14_SanitizeIdempotent ==
    /\ (pc = "sanitize" /\ Len(fn_results) = 2) => fn_results[2] = fn_results[1]
    /\ SanitizeFilename(kUntitled) = kUntitled

C14_Witness ==
    /\ pc = "sanitize"
    /\ Len(fn_results) = 2
    /\ \E k \in 1..Len(fn_args[1]) : fn_args[1][k] \in IllegalChars
    /\ \E k \in 1..Len(fn_args[1]) : fn_args[1][k] = " "
    /\ \E k \in 1..Len(fn_args[1]) : fn_args[1][k] = "_"
    /\ fn_results[1] = <<"a">>

(***************************************************************************)
(* _extract_property on its own                                            *)
(***************************************************************************)

MaxPropLines == 3

\* Lines of a block: bare and parameterised properties, a value with a
\* colon in it, a parameter without a value, a longer name, an indented
\* line, a nested block's tag.
PropLineAlphabet ==
    { lineSummary, lineSummaryParam, lineUid, lineDtstart, lineBeginAlarm,
      kSUMMARY \o <<"X", ":", "n">>,
      <<" ">> \o kSUMMARY \o <<":", "i">>,
      kSUMMARY \o <<":", "b", ":", "c", " ">>,
      kSUMMARY \o <<";", "X">>,
      kUID \o <<";", "Y", ":", " ", "2">> }

\* The blocks and the property names _extract_property is called with.
ExtractArgs ==
    { <<Join(ls, NL), name>> :
        ls \in SeqsUpTo(PropLineAlphabet, MaxPropLines),
        name \in {kSUMMARY, kUID, kDTSTART} }

InitExtract ==
    /\ input_file = None
    /\ pc = "extract"
    /\ InitLocals
    /\ fn_args \in ExtractArgs
    /\ fn_results = <<>>

\* _extract_property(block, prop_name) is called.
CallExtract ==
    /\ pc = "extract"
    /\ fn_results = <<>>
    /\ fn_results' = <<ExtractProperty(fn_args[1], fn_args[2])>>
    /\ UNCHANGED <<fn_args, input_file, pc, parser_vars, split_vars>>

NextExtract == CallExtract

\* _extract_property called once on every block and name.
SpecExtract == InitExtract /\ [][NextExtract]_vars

\* Line k of ls begins with the name followed by ":" or ";".
BeginsWithName(ls, k, name) ==
    /\ Len(ls[k]) > Len(name)
    /\ \A i \in 1..Len(name) : ls[k][i] = name[i]
    /\ ls[k][Len(name) + 1] \in {":", ";"}

\* The text after the first colon of line, nothing when it has no colon.
AfterFirstColon(line) ==
    IF \A p \in 1..Len(line) : line[p] # ":" THEN <<>>
    ELSE LET p == CHOOSE q \in 1..Len(line) :
                      /\ line[q] = ":"
                      /\ \A i \in 1..(q - 1) : line[i] # ":"
         IN  SubSeq(line, p + 1, Len(line))

\* C15: _extract_property returns the trimmed text after the first colon
\* of the first line of the block that begins with the name and ":" or
\* ";"; lines after that one never change the result; the result is empty
\* when no line matches.
C15_ExtractFirstMatch ==
    (pc = "extract" /\ fn_results # <<>>) =>
        LET ls == Splitlines(fn_args[1])
            name == fn_args[2]
            r == fn_results[1]
        IN  /\ (\A k \in 1..Len(ls) : ~BeginsWithName(ls, k, name)) => r = <<>>
            /\ \A k \in 1..Len(ls) :
                   (/\ BeginsWithName(ls, k, name)
                    /\ \A j \in 1..(k - 1) : ~BeginsWithName(ls, j, name))
                   => /\ r = Strip(AfterFirstColon(ls[k]))
                      /\ \A n \in k..Len(ls) :
                             ExtractProperty(Join(SubSeq(ls, 1, n), NL), name) = r

C15_Witness ==
    /\ pc = "extract"
    /\ fn_results # <<>>
    /\ fn_args[2] = kSUMMARY
    /\ fn_results[1] = <<EAcute, "?">>
    /\ LET ls == Splitlines(fn_args[1])
       IN  /\ Len(ls) = 3
           /\ ~BeginsWithName(ls, 1, kSUMMARY)
           /\ ls[2] = lineSummaryParam
           /\ ls[3] = lineSummary

(***************************************************************************)
(* Further properties of parse_ical                                        *)
(***************************************************************************)

\* The positions of ls that lie in a block: in a completed top-level block,
\* or at or after the opening line of the block still open at the end.
InsideBlock(ls) ==
    LET blocks == TopBlocks(ls)
        open == DanglingStart(ls)
    IN  {k \in 1..Len(ls) :
            \/ \E j \in 1..Len(blocks) : blocks[j][1] <= k /\ k <= blocks[j][2]
            \/ open # 0 /\ open <= k}

\* The lines of ls outside every block that are not blank and are not the
\* container's tag lines, in order.
OutsideLines(ls) ==
    LET inside == InsideBlock(ls)
        Keep(k) == /\ k \notin inside
                   /\ Strip(ls[k]) # <<>>
                   /\ Strip(ls[k]) \notin {BeginVCalendar, EndVCalendar}
        idx == SelectSeq([k \in 1..Len(ls) |-> k], Keep)
    IN  [k \in 1..Len(idx) |-> ls[idx[k]]]

\* C16: at every point of the line loop, header_lines is the sequence, in
\* input order, of the non-blank lines read outside every block that are
\* not the container's tag lines; a closing tag met while no block is open
\* is among them, a line read while a block is open never is.
C16_HeaderLines ==
    InParser => header_lines = OutsideLines(LinesRead)

C16_Witness ==
    /\ pc = "parsed"
    /\ Len(lines) = 4
    /\ lines[1] = lineEndEvent
    /\ lines[2] = lineBeginEvent
    /\ lines[3] = lineSummary
    /\ MatchEnd(lines, 2) = 4
    /\ header_lines = <<lineEndEvent>>

(***************************************************************************)
(* Further properties of _split_by_size                                    *)
(***************************************************************************)

\* C17: a non-empty accumulator is flushed before the end of the events
\* only when the next event is oversized or would bring the accumulated
\* size over the limit; of two consecutive chunks that the oversized
\* branch did not write, the first with the first event of the second is
\* over the limit; and a non-empty accumulator is never over the limit.
C17_GreedyMaximal ==
    /\ [](InSizeMode =>
            /\ \A m \in 1..(Len(created_files) - 1) :
                   (~created_files[m].oversized /\ ~created_files[m + 1].oversized)
                   => Utf8Len(created_files[m].content)
                          + Utf8Len(created_files[m + 1].event_texts[1]) + 1
                              > max_size_bytes
            /\ (pc = "by_size" /\ current_events # <<>>)
                   => current_size <= max_size_bytes)
    /\ [][ (/\ pc = "by_size"
            /\ ev_idx < Len(events)
            /\ current_events # <<>>
            /\ Len(created_files') > Len(created_files))
           => \/ NextIsOversized
              \/ current_size + Utf8Len(events[ev_idx + 1].text) + 1
                     > max_size_bytes ]_vars

C17_Witness ==
    /\ pc = "done"
    /\ returned_by = "_split_by_size"
    /\ Len(created_files) = 2
    /\ ~created_files[1].oversized
    /\ ~created_files[2].oversized
    /\ Len(created_files[1].event_texts) = 2
    /\ Utf8Len(created_files[1].content) = max_size_bytes

\* C18: in size-bounded mode every file written holds at least one event,
\* and no more files are written than events were taken; when the input
\* has an event, the run ends with at least one file and at most as many
\* files as events.
C18_NoEmptyChunk ==
    InSizeMode =>
        /\ \A m \in 1..Len(created_files) : Len(created_files[m].event_texts) >= 1
        /\ Len(created_files) <= ev_idx
        /\ (pc = "done" /\ events # <<>>)
               => /\ 1 <= Len(created_files)
                  /\ Len(created_files) <= Len(events)

C18_Witness ==
    /\ pc = "done"
    /\ returned_by = "_split_by_size"
    /\ Len(events) = 3
    /\ Len(created_files) = 2
    /\ Len(created_files[1].event_texts) = 2
    /\ Len(created_files[2].event_texts) = 1

\* C19: at the start of every iteration of the line loop, and after the
\* loop, block_type is unset exactly when nesting is zero, exactly when
\* current_block is empty; nesting is at least one while a block is open
\* and never negative, stray closing tags included.
C19_ParserState ==
    InParser =>
        /\ (block_type = None) <=> (nesting = 0)
        /\ (nesting = 0) <=> (current_block = <<>>)
        /\ block_type # None => nesting >= 1
        /\ nesting >= 0

C19_Witness ==
    /\ pc = "parse"
    /\ line_idx = 3
    /\ lines[1] = lineEndEvent
    /\ header_lines = <<lineEndEvent>>
    /\ block_type = Some(kVEVENT)
    /\ nesting = 2
    /\ Len(current_block) = 2

(***************************************************************************)
(* parse_ical of build_ics                                                 *)
(***************************************************************************)

\* Runs on well-formed calendars and on arbitrary lines alike.
InitAny == Init \/ InitLines

SpecAny == InitAny /\ [][Next]_vars

\* The events at the positions S, in their order.
EventsAt(S) ==
    LET idx == SelectSeq([k \in 1..Len(events) |-> k], LAMBDA k : k \in S)
    IN  [k \in 1..Len(idx) |-> events[idx[k]]]

\* C20: for the document parse_ical returned and every sub-sequence evs of
\* its events, parse_ical of build_ics(header_lines, timezones, texts of
\* evs) returns the same header_lines, the same timezones and exactly evs,
\* in order.
C20_ParseOfBuild ==
    pc = "parsed" =>
        \A S \in SUBSET (1..Len(events)) :
            ParseIcal(BuildIcs(header_lines, timezones, Texts(EventsAt(S))))
                = [header_lines |-> header_lines, timezones |-> timezones,
                   events |-> EventsAt(S)]

C20_Witness ==
    /\ pc = "parsed"
    /\ header_lines # <<>>
    /\ timezones # <<>>
    /\ Len(events) = 1
    /\ events[1].summary # <<>>
    /\ ParseIcal(BuildIcs(header_lines, timezones, <<>>)).events = <<>>
    /\ ParseIcal(BuildIcs(header_lines, timezones, Texts(events))).events = events

====
